---- MODULE Spec2Model ----
(***************************************************************************)
(* The link shortener: the links table, the three server actions of        *)
(* app/dashboard/actions.ts (create, update, delete) and the redirect      *)
(* route handler, run by concurrent requests.  Every persistence statement *)
(* is one atomic step; a request is suspended between two of them.         *)
(***************************************************************************)
EXTENDS Integers, Sequences, FiniteSets, TLC

(***************************************************************************)
(* Bounds of the model                                                     *)
(***************************************************************************)
\* the requests served in one run
MaxOps == 3

\* the slots that serve requests concurrently
Procs == {1, 2}

\* the row ids an update or a delete may name
TargetIds == {1, 2}

\* the identities the identity provider can answer with; NoUser is null
Users == {"u1", "u2"}
NoUser == "null"

\* the readings of a clock
MaxTime == 2
Times == 0..MaxTime

(***************************************************************************)
(* Program constants                                                       *)
(***************************************************************************)
MinCodeLen == 3
MaxCodeLen == 20
SliceLen == 10
MaxCounter == 1000
VarcharLen == 20
StatusNotFound == 404
StatusRedirect == 307

(***************************************************************************)
(* Characters and strings: a string is a sequence of one-character strings *)
(***************************************************************************)
LowerChars == <<"a","b","c","d","e","f","g","h","i","j","k","l","m",
                "n","o","p","q","r","s","t","u","v","w","x","y","z">>
UpperChars == <<"A","B","C","D","E","F","G","H","I","J","K","L","M",
                "N","O","P","Q","R","S","T","U","V","W","X","Y","Z">>
DigitChars == <<"0","1","2","3","4","5","6","7","8","9">>

Range(s) == {s[i] : i \in DOMAIN s}

SetMin(S) == CHOOSE x \in S : \A y \in S : x <= y

\* String.prototype.toLowerCase on one character
ToLowerChar(c) ==
  IF \E i \in DOMAIN UpperChars : UpperChars[i] = c
  THEN LowerChars[CHOOSE i \in DOMAIN UpperChars : UpperChars[i] = c]
  ELSE c

ToLowerCase(s) == [i \in DOMAIN s |-> ToLowerChar(s[i])]

\* the character class [a-z0-9]
IsLowerAlnum(c) == c \in Range(LowerChars) \cup Range(DigitChars)

\* the character class [a-zA-Z0-9-_]
IsCodeChar(c) ==
  c \in Range(LowerChars) \cup Range(UpperChars) \cup Range(DigitChars) \cup {"-", "_"}

\* the decimal text of a non-negative integer, as a template literal prints it
RECURSIVE ToDecimal(_)
ToDecimal(n) ==
  IF n < 10 THEN <<DigitChars[n + 1]>>
  ELSE ToDecimal(n \div 10) \o <<DigitChars[(n % 10) + 1]>>

(***************************************************************************)
(* URLs.  A URL string is given by the parts the URL parser finds in it:   *)
(* scheme = "" stands for a string that is no absolute URL.                *)
(***************************************************************************)
UrlGithub == [scheme |-> "https",
              host |-> <<"w","w","w",".","G","i","t","H","u","b",".","c","o","m">>,
              path |-> "/"]
UrlX == [scheme |-> "https", host |-> <<"x",".","i","o">>, path |-> "/a"]
UrlStack == [scheme |-> "https",
             host |-> <<"s","t","a","c","k","-","o","v","e","r","f","l","o","w","1",
                        ".","c","o","m">>,
             path |-> "/q"]
UrlDash == [scheme |-> "https", host |-> <<"-",".","i","o">>, path |-> "/"]
UrlBad == [scheme |-> "", host |-> <<>>, path |-> "not a url"]

ValidUrls == {UrlGithub, UrlX, UrlStack, UrlDash}
Urls == ValidUrls \cup {UrlBad}

\* new URL(url) succeeds; z.string().url() accepts
UrlParses(url) == url.scheme # ""

\* URL.hostname: the host, lower-cased by the parser
Hostname(url) == ToLowerCase(url.host)

\* hostname.replace(/^www\./, '')
StripWww(h) ==
  IF Len(h) >= 4 /\ SubSeq(h, 1, 4) = <<"w","w","w",".">>
  THEN SubSeq(h, 5, Len(h))
  ELSE h

\* domain.split('.')[0]
FirstLabel(h) ==
  LET dots == {i \in DOMAIN h : h[i] = "."}
  IN IF dots = {} THEN h ELSE SubSeq(h, 1, SetMin(dots) - 1)

LinkLiteral == <<"l","i","n","k">>

\* variant: the cut is taken four characters too late
Slice10Late(s) ==
  SubSeq(s, 1, IF Len(s) < SliceLen + 4 THEN Len(s) ELSE SliceLen + 4)

\* cleaned.slice(0, 10)
Slice10(s) == SubSeq(s, 1, IF Len(s) < SliceLen THEN Len(s) ELSE SliceLen)

generateShortCodeFromUrl(url) ==
  IF ~UrlParses(url) THEN LinkLiteral
  ELSE LET domain == StripWww(Hostname(url))
           domainPart == FirstLabel(domain)
           cleaned == SelectSeq(ToLowerCase(domainPart), IsLowerAlnum)
           sliced == Slice10(cleaned)
       IN IF sliced = <<>> THEN LinkLiteral ELSE sliced

(***************************************************************************)
(* Short codes a caller may supply                                         *)
(***************************************************************************)
CodeAb == <<"a","b">>
CodeSpace == <<"h","a","s"," ","s","p","a","c","e">>
CodeMyLink == <<"m","y","-","l","i","n","k","_","1">>
CodeGithub == <<"g","i","t","h","u","b">>
CodeGithub1 == <<"g","i","t","h","u","b","1">>
CodeX == <<"x">>

InputCodes == {CodeAb, CodeSpace, CodeMyLink, CodeGithub, CodeGithub1}

\* the inputs of createLinkAction, updateLinkAction (besides id) and deleteLinkAction
CreateInputs ==
  {[url |-> UrlGithub, codeIn |-> {}], [url |-> UrlX, codeIn |-> {}],
   [url |-> UrlStack, codeIn |-> {}], [url |-> UrlDash, codeIn |-> {}],
   [url |-> UrlBad, codeIn |-> {}],
   [url |-> UrlGithub, codeIn |-> {CodeGithub}],
   [url |-> UrlX, codeIn |-> {CodeAb}]}

UpdateInputs ==
  {[url |-> UrlX, codeIn |-> {CodeGithub}],
   [url |-> UrlStack, codeIn |-> {CodeMyLink}],
   [url |-> UrlGithub, codeIn |-> {CodeX}],
   [url |-> UrlX, codeIn |-> {}]}

\* an optional value is the empty set or a singleton
Opt(S) == {{}} \cup {{x} : x \in S}

\* variant: the lower length limit is one short
ShortCodeValidFromTwo(code) ==
  /\ Len(code) >= MinCodeLen - 1
  /\ Len(code) <= MaxCodeLen
  /\ \A i \in DOMAIN code : IsCodeChar(code[i])

\* min(3), max(20), regex /^[a-zA-Z0-9-_]+$/
ShortCodeValid(code) ==
  /\ Len(code) >= MinCodeLen
  /\ Len(code) <= MaxCodeLen
  /\ Len(code) >= 1
  /\ \A i \in DOMAIN code : IsCodeChar(code[i])

\* variant: safeParse lets everything through
CreateLinkSchemaAcceptsAll(url, codeIn) == {}

\* fieldErrors of CreateLinkSchema.safeParse: the fields that fail
CreateLinkSchema(url, codeIn) ==
  (IF UrlParses(url) THEN {} ELSE {"url"})
  \cup (IF \E c \in codeIn : ~ShortCodeValid(c) THEN {"shortCode"} ELSE {})

\* fieldErrors of UpdateLinkSchema.safeParse: id and shortCode are required
UpdateLinkSchema(idIn, url, codeIn) ==
  (IF idIn = {} THEN {"id"} ELSE {})
  \cup (IF UrlParses(url) THEN {} ELSE {"url"})
  \cup (IF codeIn = {} \/ \E c \in codeIn : ~ShortCodeValid(c) THEN {"shortCode"} ELSE {})

\* DeleteLinkSchema.safeParse succeeds
DeleteLinkSchema(idIn) == idIn # {}

(***************************************************************************)
(* State                                                                   *)
(***************************************************************************)
VARIABLES
  linksTable,   \* the rows of table links: [id, userId, url, shortCode,
                \* createdAt, updatedAt]
  nextId,       \* the identity sequence of column id
  req,          \* per slot: the request's position, inputs, locals and result
  started,      \* the number of requests started so far
  dialog,       \* per dialog of the dashboard: its React state, and whether its
                \* handler is waiting for a server action
  dbNow,        \* the clock of the database server, read by now()
  freed,        \* history: the short codes of the rows that deletes removed
  written       \* history: per row id, the url and short code that the last
                \* successful create or update of the row was asked to store,
                \* and which of the two it was

vars == <<linksTable, nextId, req, started, written, freed, dbNow, dialog>>


(***************************************************************************)
(* Results handed back to the caller                                       *)
(***************************************************************************)
NoResult ==
  [kind |-> "none", error |-> "", details |-> {}, data |-> {}, status |-> 0,
   location |-> {}, links |-> <<>>]

\* { error, details? }: details is the set of fields that carry messages
Err(msg, fields) == [NoResult EXCEPT !.kind = "error", !.error = msg, !.details = fields]

\* { success: true, data? }
Ok(rows) == [NoResult EXCEPT !.kind = "success", !.data = rows]

\* the promise rejects: a fault reaches the caller
Thrown == [NoResult EXCEPT !.kind = "thrown"]

\* new NextResponse('Link not found', { status: 404 })
ResponseNotFound ==
  [NoResult EXCEPT !.kind = "response", !.status = StatusNotFound,
                   !.error = "Link not found"]

\* NextResponse.redirect(link.url, { status: 307 })
ResponseRedirect(url) ==
  [NoResult EXCEPT !.kind = "response", !.status = StatusRedirect, !.location = {url}]

\* the path of the sign-in page, as a URL without scheme and host
SignIn == [scheme |-> "", host |-> <<>>, path |-> "/sign-in"]

\* redirect(path) of next/navigation: rendering stops, the caller is sent to path
Redirected(path) == [NoResult EXCEPT !.kind = "redirect", !.location = {path}]

\* the dashboard page rendered with the links it was given, in their order
Rendered(links) == [NoResult EXCEPT !.kind = "page", !.links = links]

ErrUnauthorized == "Unauthorized"
ErrInvalid == "Invalid input"
ErrExists == "Short code already exists"
ErrGenerate == "Failed to generate unique short code. Please provide a custom one."
ErrCreate == "Failed to create link. Please try again."
ErrUpdate == "Failed to update link. Please try again."
ErrDelete == "Failed to delete link. Please try again."
ErrNotFoundEdit == "Link not found or you do not have permission to edit it"
ErrNotFoundDelete == "Link not found or you do not have permission to delete it"

(***************************************************************************)
(* The data layer (data/links) and the constraints of table links          *)
(***************************************************************************)
\* a row as the insert stores it: created_at and updated_at DEFAULT now()
Row(id, userId, url, shortCode, now) ==
  [id |-> id, userId |-> userId, url |-> url, shortCode |-> shortCode,
   createdAt |-> now, updatedAt |-> now]

\* variant: the table has no trigger, the value the statement sets stands
update_updated_at_columnAbsent(new, now) == new

\* variant: the trigger stamps created_at as well
update_updated_at_columnBoth(new, now) ==
  [new EXCEPT !.updatedAt = now, !.createdAt = now]

\* TRIGGER update_links_updated_at BEFORE UPDATE: NEW.updated_at = NOW()
update_updated_at_column(new, now) == [new EXCEPT !.updatedAt = now]

\* variant: the excluded id is required (eq) instead of ruled out (not eq)
checkShortCodeExistsOnlyExcluded(tbl, shortCode, excludeId) ==
  \E r \in tbl : r.shortCode = shortCode /\ (excludeId # {} => r.id \in excludeId)

\* variant: the optional exclusion is never applied
checkShortCodeExistsNoExclusion(tbl, shortCode, excludeId) ==
  \E r \in tbl : r.shortCode = shortCode

\* checkShortCodeExists(shortCode, excludeId?) on table tbl
checkShortCodeExists(tbl, shortCode, excludeId) ==
  \E r \in tbl : r.shortCode = shortCode /\ r.id \notin excludeId

\* the orders in which the rows of S can come newest first; rows created at the
\* same instant come in any order
RECURSIVE NewestFirst(_)
NewestFirst(S) ==
  IF S = {} THEN {<<>>}
  ELSE UNION {{<<m>> \o t : t \in NewestFirst(S \ {m})} :
                m \in {x \in S : \A y \in S : x.createdAt >= y.createdAt}}

\* variant: orderBy(createdAt), oldest first
RECURSIVE OldestFirst(_)
OldestFirst(S) ==
  IF S = {} THEN {<<>>}
  ELSE UNION {{<<m>> \o t : t \in OldestFirst(S \ {m})} :
                m \in {x \in S : \A y \in S : x.createdAt <= y.createdAt}}

getUserLinksAscending(tbl, userId) == OldestFirst({r \in tbl : r.userId = userId})

\* getUserLinks(userId): the results the select can give
getUserLinks(tbl, userId) == NewestFirst({r \in tbl : r.userId = userId})

\* variant: the select without its where clause
getLinkByShortCodeNoWhere(tbl, shortCode) == tbl

\* getLinkByShortCode(shortCode): the rows the select matches
getLinkByShortCode(tbl, shortCode) == {r \in tbl : r.shortCode = shortCode}

\* variant: a table without the unique constraint
ShortCodeConstraintNoUnique(tbl, id, shortCode) == Len(shortCode) <= VarcharLen

\* CONSTRAINT links_short_code_unique and varchar(20): may row id carry the code
ShortCodeConstraint(tbl, id, shortCode) ==
  /\ Len(shortCode) <= VarcharLen
  /\ ~\E r \in tbl : r.id # id /\ r.shortCode = shortCode

\* variant: the where clause without the owner
OwnedRowsAnyOwner(tbl, id, userId) == {r \in tbl : r.id = id}

\* where(and(eq(id), eq(userId))) of updateLink and deleteLink
OwnedRows(tbl, id, userId) == {r \in tbl : r.id = id /\ r.userId = userId}

(***************************************************************************)
(* A request                                                               *)
(***************************************************************************)
IdleReq ==
  [pc |-> "idle", op |-> "none", userId |-> NoUser, url |-> UrlBad, codeIn |-> {},
   idIn |-> {}, shortCode |-> <<>>, base |-> <<>>, counter |-> 0, probed |-> <<>>,
   dbError |-> "none", result |-> NoResult,
   caller |-> NoUser, authCalls |-> 0, dbCalls |-> 0, revalidated |-> 0]

\* const { userId } = await auth(): the identity provider names the caller
Auth(r, caller) ==
  [r EXCEPT !.caller = caller, !.userId = caller, !.authCalls = @ + 1]

\* variant: the guard lets every caller through
AuthenticatedAnyone(userId) == TRUE

\* the guard  if (!userId)  passes
Authenticated(userId) == userId # NoUser

\* a call of the data layer is issued
Issued(r) == [r EXCEPT !.dbCalls = @ + 1]

\* variant: the invalidation is left out
revalidatePathSkipped(r) == r

\* revalidatePath('/dashboard')
revalidatePath(r) == [r EXCEPT !.revalidated = @ + 1]

Finish(r, res) == [r EXCEPT !.pc = "done", !.result = res]

TheOne(S) == CHOOSE x \in S : TRUE

\* createLinkAction up to its first persistence call (lines 54-76, 88-90)
createLinkActionBegin(userId, url, codeIn) ==
  LET r == Auth([IdleReq EXCEPT !.op = "create", !.url = url, !.codeIn = codeIn],
                userId)
      fields == CreateLinkSchema(url, codeIn)
  IN IF ~Authenticated(userId) THEN Finish(r, Err(ErrUnauthorized, {}))
     ELSE IF fields # {} THEN Finish(r, Err(ErrInvalid, fields))
     ELSE IF codeIn = {}
          THEN LET baseShortCode == generateShortCodeFromUrl(url)
               IN [r EXCEPT !.pc = "alloc", !.base = baseShortCode,
                            !.shortCode = baseShortCode, !.counter = 1]
          ELSE [r EXCEPT !.pc = "check", !.shortCode = TheOne(codeIn)]

\* variant: the suffix is appended to the previous candidate, not to the base
AllocRoundOnPrevious(r, exists) ==
  LET seen == [r EXCEPT !.probed = Append(@, [code |-> r.shortCode, held |-> exists])]
  IN IF exists
     THEN LET next == [seen EXCEPT !.shortCode = r.shortCode \o ToDecimal(r.counter),
                                   !.counter = r.counter + 1]
          IN IF next.counter > MaxCounter
             THEN Finish(next, Err(ErrGenerate, {}))
             ELSE next
     ELSE [seen EXCEPT !.pc = "insert"]

\* variant: the limit is tested against one more than the constant
AllocRoundLateLimit(r, exists) ==
  LET seen == [r EXCEPT !.probed = Append(@, [code |-> r.shortCode, held |-> exists])]
  IN IF exists
     THEN LET next == [seen EXCEPT !.shortCode = r.base \o ToDecimal(r.counter),
                                   !.counter = r.counter + 1]
          IN IF next.counter > MaxCounter + 1
             THEN Finish(next, Err(ErrGenerate, {}))
             ELSE next
     ELSE [seen EXCEPT !.pc = "insert"]

\* one round of the while loop of createLinkAction (lines 80-87)
AllocRound(r, exists) ==
  LET seen == [r EXCEPT !.probed = Append(@, [code |-> r.shortCode, held |-> exists])]
  IN IF exists
     THEN LET next == [seen EXCEPT !.shortCode = r.base \o ToDecimal(r.counter),
                                   !.counter = r.counter + 1]
          IN IF next.counter > MaxCounter
             THEN Finish(next, Err(ErrGenerate, {}))
             ELSE next
     ELSE [seen EXCEPT !.pc = "insert"]

\* variant: the check of a supplied short code is left to the insert
CreateCheckedByInsert(r, exists) == [r EXCEPT !.pc = "insert"]

\* the check of a supplied short code (lines 90-97)
CreateChecked(r, exists) ==
  IF exists THEN Finish(r, Err(ErrExists, {"shortCode"}))
  ELSE [r EXCEPT !.pc = "insert"]

\* updateLinkAction up to its first persistence call (lines 115-134)
updateLinkActionBegin(userId, idIn, url, codeIn) ==
  LET r == Auth([IdleReq EXCEPT !.op = "update", !.url = url, !.codeIn = codeIn,
                                 !.idIn = idIn], userId)
      fields == UpdateLinkSchema(idIn, url, codeIn)
  IN IF ~Authenticated(userId) THEN Finish(r, Err(ErrUnauthorized, {}))
     ELSE IF fields # {} THEN Finish(r, Err(ErrInvalid, fields))
     ELSE [r EXCEPT !.pc = "update_check", !.shortCode = TheOne(codeIn)]

\* variant: the check of updateLinkAction is left to the update statement
UpdateCheckedByWrite(r, exists) == [r EXCEPT !.pc = "update_write"]

\* the check of updateLinkAction (lines 134-140)
UpdateChecked(r, exists) ==
  IF exists THEN Finish(r, Err(ErrExists, {"shortCode"}))
  ELSE [r EXCEPT !.pc = "update_write"]

\* deleteLinkAction up to its persistence call (lines 161-176)
deleteLinkActionBegin(userId, idIn) ==
  LET r == Auth([IdleReq EXCEPT !.op = "delete", !.idIn = idIn], userId)
  IN IF ~Authenticated(userId) THEN Finish(r, Err(ErrUnauthorized, {}))
     ELSE IF ~DeleteLinkSchema(idIn) THEN Finish(r, Err(ErrInvalid, {}))
     ELSE [r EXCEPT !.pc = "delete_write"]


\* a persistence call of an action outside any try block fails: the fault escapes
Escaped(r) == Finish([r EXCEPT !.dbError = "fault"], Thrown)

\* createLink and the rest of createLinkAction (lines 99-112): the insert is
\* refused by a storage fault or by a constraint, and the catch answers
CreateWritten(r, tbl, id, now, fault) ==
  IF fault
  THEN [req |-> Finish([r EXCEPT !.dbError = "fault"], Err(ErrCreate, {})),
        tbl |-> tbl, id |-> id]
  ELSE IF ~ShortCodeConstraint(tbl, id, r.shortCode)
  THEN [req |-> Finish([r EXCEPT !.dbError = "constraint"], Err(ErrCreate, {})),
        tbl |-> tbl, id |-> id]
  ELSE LET link == Row(id, r.userId, r.url, r.shortCode, now)
       IN [req |-> Finish(revalidatePath(r), Ok({link})), tbl |-> tbl \cup {link},
           id |-> id + 1]

\* updateLink and the rest of updateLinkAction (lines 142-158); appNow is what
\* new Date() reads on the application server, now what NOW() reads in the database
UpdateWritten(r, tbl, now, appNow, fault) ==
  LET id == TheOne(r.idIn)
      hit == OwnedRows(tbl, id, r.userId)
  IN IF fault
     THEN [req |-> Finish([r EXCEPT !.dbError = "fault"], Err(ErrUpdate, {})),
           tbl |-> tbl]
     ELSE IF hit = {}
     THEN [req |-> Finish(r, Err(ErrNotFoundEdit, {})), tbl |-> tbl]
     ELSE IF ~ShortCodeConstraint(tbl, id, r.shortCode)
     THEN [req |-> Finish([r EXCEPT !.dbError = "constraint"], Err(ErrUpdate, {})),
           tbl |-> tbl]
     ELSE LET set == [TheOne(hit) EXCEPT !.url = r.url, !.shortCode = r.shortCode,
                                         !.updatedAt = appNow]
              link == update_updated_at_column(set, now)
          IN [req |-> Finish(revalidatePath(r), Ok({link})),
              tbl |-> (tbl \ hit) \cup {link}]

\* deleteLink and the rest of deleteLinkAction (lines 176-189)
DeleteWritten(r, tbl, fault) ==
  LET hit == OwnedRows(tbl, TheOne(r.idIn), r.userId)
  IN IF fault
     THEN [req |-> Finish([r EXCEPT !.dbError = "fault"], Err(ErrDelete, {})),
           tbl |-> tbl]
     ELSE IF hit = {}
     THEN [req |-> Finish(r, Err(ErrNotFoundDelete, {})), tbl |-> tbl]
     ELSE [req |-> Finish(revalidatePath(r), Ok({})), tbl |-> tbl \ hit]

\* variant: a miss is sent to a landing page instead of answered 404
GetAnsweredFallback(r, link) ==
  IF link = {} THEN Finish(r, ResponseRedirect(UrlDash))
  ELSE Finish(r, ResponseRedirect(TheOne(link).url))

\* GET of the redirect route after its lookup (lines 11-19); link is the set of
\* rows destructured from the select: empty, or the row taken
GetAnswered(r, link) ==
  IF link = {} THEN Finish(r, ResponseNotFound)
  ELSE Finish(r, ResponseRedirect(TheOne(link).url))

\* variant: the page goes on to its query whoever asks
DashboardPageBeginNoRedirect(userId) ==
  [Auth([IdleReq EXCEPT !.op = "dashboard"], userId) EXCEPT !.pc = "list_query"]

\* DashboardPage up to its query (part_003 lines 18-21)
DashboardPageBegin(userId) ==
  LET r == Auth([IdleReq EXCEPT !.op = "dashboard"], userId)
  IN IF ~Authenticated(userId) THEN Finish(r, Redirected(SignIn))
     ELSE [r EXCEPT !.pc = "list_query"]

\* the short codes a visitor may ask the redirect route for
LookupCodes == {CodeGithub, CodeMyLink, CodeX}

(***************************************************************************)
(* Initial state and actions                                               *)
(***************************************************************************)

(***************************************************************************)
(* The dialogs of the dashboard (CreateLinkDialog, EditLinkDialog,         *)
(* DeleteLinkDialog)                                                       *)
(***************************************************************************)
Dialogs == {"create", "edit", "delete"}

\* useState(false), useState(false), useState({}), useState(''); the delete
\* dialog has the one message  error  and no per-field messages
ClosedDialog ==
  [open |-> FALSE, isLoading |-> FALSE, errors |-> {}, generalError |-> "",
   awaiting |-> FALSE]

\* setIsLoading(true); setErrors({}); setGeneralError(''); then the await
Submitted(d) ==
  [d EXCEPT !.isLoading = TRUE, !.errors = {}, !.generalError = "", !.awaiting = TRUE]

\* handleSubmit after its await (CreateLinkDialog lines 130-142, EditLinkDialog
\* lines 63-73): a rejected promise ends the handler at the await
Resumed(d, result) ==
  IF result.kind = "thrown" THEN [d EXCEPT !.awaiting = FALSE]
  ELSE IF result.error # ""
  THEN IF result.details # {}
       THEN [d EXCEPT !.errors = result.details, !.isLoading = FALSE,
                      !.awaiting = FALSE]
       ELSE [d EXCEPT !.generalError = result.error, !.isLoading = FALSE,
                      !.awaiting = FALSE]
  ELSE [d EXCEPT !.open = FALSE, !.isLoading = FALSE, !.awaiting = FALSE]

\* handleDelete after its await (DeleteLinkDialog lines 33-40)
ResumedDelete(d, result) ==
  IF result.kind = "thrown" THEN [d EXCEPT !.awaiting = FALSE]
  ELSE IF result.error # ""
  THEN [d EXCEPT !.generalError = result.error, !.isLoading = FALSE,
                 !.awaiting = FALSE]
  ELSE [d EXCEPT !.open = FALSE, !.isLoading = FALSE, !.awaiting = FALSE]

\* onOpenChange: setOpen for the create and the delete dialog; handleOpenChange
\* of the edit dialog also clears the messages when it opens
OpenChanged(k, d, newOpen) ==
  IF k = "edit" /\ newOpen
  THEN [d EXCEPT !.open = newOpen, !.errors = {}, !.generalError = ""]
  ELSE [d EXCEPT !.open = newOpen]

\* ...(shortCode && { shortCode }): an empty field is left out of the input
FormCode(text) == IF text = <<>> THEN {} ELSE {text}

Init ==
  /\ linksTable = {}
  /\ nextId = 1
  /\ req = [p \in Procs |-> IdleReq]
  /\ started = 0
  /\ written = {}
  /\ freed = {}
  /\ dialog = [k \in Dialogs |-> ClosedDialog]
  /\ dbNow = 0

\* an answer is handed to its caller before any request takes another step
\* (handing it over touches nothing another request reads)
Delivered == \A q \in Procs : req[q].pc # "done"

\* a new request is taken by the first free slot, while the run has requests left
Accepts(p) ==
  /\ Delivered
  /\ req[p].pc = "idle"
  /\ \A q \in Procs : req[q].pc = "idle" => p <= q
  /\ started < MaxOps
  /\ started' = started + 1

\* the callers: each identity with each input; the anonymous caller with one
Callers(inputs) ==
  {[userId |-> u, input |-> i] : u \in Users, i \in inputs}
  \cup {[userId |-> NoUser, input |-> CHOOSE i \in inputs : TRUE]}

CreateStart(p) ==
  /\ Accepts(p)
  /\ \E c \in Callers(CreateInputs) :
       req' = [req EXCEPT ![p] =
                 createLinkActionBegin(c.userId, c.input.url, c.input.codeIn)]
  /\ UNCHANGED <<dbNow, linksTable, nextId, written, freed, dialog>>

CreateAllocProbe(p) ==
  /\ Delivered
  /\ req[p].pc = "alloc"
  /\ \E fault \in BOOLEAN :
       req' = [req EXCEPT ![p] =
                 IF fault THEN Escaped(Issued(@))
                 ELSE AllocRound(Issued(@),
                                 checkShortCodeExists(linksTable, @.shortCode, {}))]
  /\ UNCHANGED <<dbNow, linksTable, nextId, started, written, freed, dialog>>

CreateCheck(p) ==
  /\ Delivered
  /\ req[p].pc = "check"
  /\ \E fault \in BOOLEAN :
       req' = [req EXCEPT ![p] =
                 IF fault THEN Escaped(Issued(@))
                 ELSE CreateChecked(Issued(@),
                                    checkShortCodeExists(linksTable, @.shortCode, {}))]
  /\ UNCHANGED <<dbNow, linksTable, nextId, started, written, freed, dialog>>

CreateInsert(p) ==
  /\ Delivered
  /\ req[p].pc = "insert"
  /\ \E fault \in BOOLEAN :
       LET w == CreateWritten(Issued(req[p]), linksTable, nextId, dbNow, fault)
       IN /\ req' = [req EXCEPT ![p] = w.req]
          /\ linksTable' = w.tbl
          /\ nextId' = w.id
          /\ written' = IF w.req.result.kind = "success"
                        THEN written \cup {[id |-> nextId, url |-> req[p].url,
                                            shortCode |-> req[p].shortCode,
                                            op |-> "create"]}
                        ELSE written
  /\ UNCHANGED <<dbNow, started, freed, dialog>>

UpdateStart(p) ==
  /\ Accepts(p)
  /\ \E c \in Callers(UpdateInputs), idIn \in Opt(TargetIds) :
       req' = [req EXCEPT ![p] =
                 updateLinkActionBegin(c.userId, idIn, c.input.url, c.input.codeIn)]
  /\ UNCHANGED <<dbNow, linksTable, nextId, written, freed, dialog>>

UpdateCheck(p) ==
  /\ Delivered
  /\ req[p].pc = "update_check"
  /\ \E fault \in BOOLEAN :
       req' = [req EXCEPT ![p] =
                 IF fault THEN Escaped(Issued(@))
                 ELSE UpdateChecked(Issued(@),
                                    checkShortCodeExists(linksTable, @.shortCode, @.idIn))]
  /\ UNCHANGED <<dbNow, linksTable, nextId, started, written, freed, dialog>>

UpdateWrite(p) ==
  /\ Delivered
  /\ req[p].pc = "update_write"
  /\ \E fault \in BOOLEAN, appNow \in Times :
       LET w == UpdateWritten(Issued(req[p]), linksTable, dbNow, appNow, fault)
       IN /\ req' = [req EXCEPT ![p] = w.req]
          /\ linksTable' = w.tbl
          /\ written' = IF w.req.result.kind = "success"
                        THEN {x \in written : x.id \notin req[p].idIn}
                             \cup {[id |-> TheOne(req[p].idIn), url |-> req[p].url,
                                    shortCode |-> req[p].shortCode,
                                    op |-> "update"]}
                        ELSE written
  /\ UNCHANGED <<dbNow, nextId, started, freed, dialog>>

DeleteStart(p) ==
  /\ Accepts(p)
  /\ \E u \in Users \cup {NoUser}, idIn \in Opt(TargetIds) :
       req' = [req EXCEPT ![p] = deleteLinkActionBegin(u, idIn)]
  /\ UNCHANGED <<dbNow, linksTable, nextId, written, freed, dialog>>

DeleteWrite(p) ==
  /\ Delivered
  /\ req[p].pc = "delete_write"
  /\ \E fault \in BOOLEAN :
       LET w == DeleteWritten(Issued(req[p]), linksTable, fault)
       IN /\ req' = [req EXCEPT ![p] = w.req]
          /\ linksTable' = w.tbl
          /\ written' = IF w.req.result.kind = "success"
                        THEN {x \in written : x.id \notin req[p].idIn}
                        ELSE written
          /\ freed' = freed \cup {x.shortCode : x \in linksTable \ w.tbl}
  /\ UNCHANGED <<dbNow, nextId, started, dialog>>

\* GET up to its lookup (line 8): the short code comes from the path; the
\* visitor has a session or none, and the route does not ask which
GetStart(p) ==
  /\ Accepts(p)
  /\ \E code \in LookupCodes, visitor \in Users \cup {NoUser} :
       req' = [req EXCEPT ![p] = [IdleReq EXCEPT !.op = "get", !.pc = "get_lookup",
                                                 !.shortCode = code,
                                                 !.caller = visitor]]
  /\ UNCHANGED <<dbNow, linksTable, nextId, written, freed, dialog>>

GetLookup(p) ==
  /\ Delivered
  /\ req[p].pc = "get_lookup"
  /\ \E fault \in BOOLEAN :
       LET found == getLinkByShortCode(linksTable, req[p].shortCode)
       IN \E link \in (IF found = {} THEN {{}} ELSE {{l} : l \in found}) :
            req' = [req EXCEPT ![p] = IF fault THEN Escaped(Issued(@))
                                      ELSE GetAnswered(Issued(@), link)]
  /\ UNCHANGED <<dbNow, linksTable, nextId, started, written, freed, dialog>>

\* a request for /dashboard
DashboardStart(p) ==
  /\ Accepts(p)
  /\ \E userId \in Users \cup {NoUser} :
       req' = [req EXCEPT ![p] = DashboardPageBegin(userId)]
  /\ UNCHANGED <<dbNow, linksTable, nextId, written, freed, dialog>>

\* the listing query of the page and the rendering of its result
DashboardQuery(p) ==
  /\ Delivered
  /\ req[p].pc = "list_query"
  /\ \E fault \in BOOLEAN, links \in getUserLinks(linksTable, req[p].userId) :
       req' = [req EXCEPT ![p] = IF fault THEN Escaped(Issued(@))
                                 ELSE Finish(Issued(@), Rendered(links))]
  /\ UNCHANGED <<dbNow, linksTable, nextId, started, written, freed, dialog>>

\* the clock of the database server advances
Tick ==
  /\ Delivered
  /\ dbNow < MaxTime
  /\ dbNow' = dbNow + 1
  /\ UNCHANGED <<linksTable, nextId, req, started, written, freed, dialog>>

\* the caller has its answer; the slot serves the next request
Return(p) ==
  /\ req[p].pc = "done"
  /\ req' = [req EXCEPT ![p] = IdleReq]
  /\ UNCHANGED <<dbNow, linksTable, nextId, started, written, freed, dialog>>

Next ==
  \E p \in Procs :
    \/ CreateStart(p)
    \/ CreateAllocProbe(p)
    \/ CreateCheck(p)
    \/ CreateInsert(p)
    \/ UpdateStart(p)
    \/ UpdateCheck(p)
    \/ UpdateWrite(p)
    \/ DeleteStart(p)
    \/ DeleteWrite(p)
    \/ GetStart(p)
    \/ GetLookup(p)
    \/ Return(p)

\* the server actions and the redirect route; the clock stands still, which
\* changes nothing for them: no action and no lookup reads a timestamp
Spec == Init /\ [][Next]_vars

\* the dashboard, the server actions and the clock, one request at a time; of
\* the server actions, the calls that get as far as the table: signed in, valid,
\* and for a create without a short code
TimedNext ==
  \/ Tick
  \/ \E p \in {1} :
       \/ CreateStart(p) /\ req'[p].pc = "alloc" /\ req'[p].url \in {UrlGithub, UrlX}
       \/ CreateAllocProbe(p)
       \/ CreateInsert(p)
       \/ UpdateStart(p) /\ req'[p].pc = "update_check"
       \/ UpdateCheck(p)
       \/ UpdateWrite(p)
       \/ DeleteStart(p) /\ req'[p].pc = "delete_write"
       \/ DeleteWrite(p)
       \/ DashboardStart(p)
       \/ DashboardQuery(p)
       \/ Return(p)

\* the row the seed script has stored for its user when the run starts
UrlSeed == [scheme |-> "https",
            host |-> <<"w","w","w",".","g","i","t","h","u","b",".","c","o","m">>,
            path |-> "/"]
CodeSeed == <<"g","h","2","0","2","4">>
SeedUser == "u2"

TimedInit ==
  /\ linksTable = {Row(1, SeedUser, UrlSeed, CodeSeed, 0)}
  /\ nextId = 2
  /\ req = [p \in Procs |-> IdleReq]
  /\ started = 0
  /\ written = {}
  /\ freed = {}
  /\ dialog = [k \in Dialogs |-> ClosedDialog]
  /\ dbNow = 0

TimedSpec == TimedInit /\ [][TimedNext]_vars


(***************************************************************************)
(* Properties                                                              *)
(***************************************************************************)
Done(p) == req[p].pc = "done"

Succeeded(p) == Done(p) /\ req[p].result.kind = "success"

\* the request of slot p takes its last step in this transition
Finishes(p) == req[p].pc \notin {"idle", "done"} /\ req'[p].pc = "done"

\* C1: in every reachable state no two rows of the table carry the same short
\* code, whoever owns them
C1_ShortCodeUnique ==
  \A r1 \in linksTable : \A r2 \in linksTable :
    r1.id # r2.id => r1.shortCode # r2.shortCode

\* two requests of different callers saw the same code free; one wrote it and
\* the write of the other was refused
C1_Witness ==
  \E p \in Procs :
    /\ Done(p)
    /\ req[p].dbError = "constraint"
    /\ \E r \in linksTable : r.shortCode = req[p].shortCode /\ r.userId # req[p].userId

\* C2: a row changes or disappears only in the last step of a successful update
\* or delete that names the row and whose caller is the row's owner
C2_OwnerOnly ==
  [][\A r \in linksTable :
       r \notin linksTable' =>
         \E p \in Procs :
           /\ req[p].pc \in {"update_write", "delete_write"}
           /\ Finishes(p)
           /\ req'[p].result.kind = "success"
           /\ req[p].userId = r.userId
           /\ req[p].idIn = {r.id}]_vars

\* a request of another caller named the row, reached the table and the row is
\* still there
C2_Witness ==
  \E p \in Procs :
    /\ Done(p)
    /\ req[p].op \in {"update", "delete"}
    /\ req[p].result.error \in {ErrNotFoundEdit, ErrNotFoundDelete}
    /\ \E r \in linksTable : req[p].idIn = {r.id} /\ r.userId # req[p].userId

\* C3: an update or delete that names a row owned by another caller ends, when
\* no storage fault occurs, with the not-found/not-permitted error and with
\* nothing else
C3_ForeignIsNotFound ==
  [][\A p \in Procs :
       (/\ req[p].op \in {"update", "delete"}
        /\ Finishes(p)
        /\ req'[p].dbError = "none"
        /\ \E r \in linksTable : req[p].idIn = {r.id} /\ r.userId # req[p].userId)
       => req'[p].result.error \in {ErrNotFoundEdit, ErrNotFoundDelete}]_vars

\* C4: a request whose insert or update is refused by the uniqueness constraint
\* returns the short-code-already-taken error
C4_RaceLoserGetsCollision ==
  \A p \in Procs :
    (Done(p) /\ req[p].dbError = "constraint")
    => (req[p].result.kind = "error" /\ req[p].result.error = ErrExists)

\* C5: whichever persistence call fails, the operation ends with a result value
\* that carries an error; no fault reaches the caller
C5_NoFaultEscapes ==
  \A p \in Procs :
    (Done(p) /\ req[p].dbError = "fault") => req[p].result.kind = "error"

\* C6: every stored short code has 3 to 20 characters of [A-Za-z0-9_-]
C6_StoredCodeShape ==
  \A r \in linksTable :
    /\ Len(r.shortCode) >= 3
    /\ Len(r.shortCode) <= 20
    /\ \A i \in DOMAIN r.shortCode : IsCodeChar(r.shortCode[i])


AutoCreate(p) == req[p].op = "create" /\ req[p].codeIn = {}

\* the n-th candidate of an allocation: the base, then the base with suffix n - 1
Candidate(base, n) == IF n = 1 THEN base ELSE base \o ToDecimal(n - 1)

\* C7: a create without explicit code probes base, base1, base2, ... in this
\* order, without gap or repeat, goes on exactly while the probed candidate is
\* held by a row, and uses the first candidate it found free
C7_AllocatorOrder ==
  \A p \in Procs :
    AutoCreate(p) =>
      LET pr == req[p].probed
          base == generateShortCodeFromUrl(req[p].url)
      IN /\ \A i \in DOMAIN pr : pr[i].code = Candidate(base, i)
         /\ \A i \in DOMAIN pr : \A j \in DOMAIN pr : i # j => pr[i].code # pr[j].code
         /\ \A i \in DOMAIN pr : i < Len(pr) => pr[i].held
         /\ (req[p].pc = "insert" \/ Succeeded(p)) =>
              /\ Len(pr) >= 1
              /\ ~pr[Len(pr)].held
              /\ req[p].shortCode = pr[Len(pr)].code
         /\ Succeeded(p) =>
              \E r \in linksTable :
                req[p].result.data = {r} /\ r.shortCode = pr[Len(pr)].code

\* a create found the base and base1 taken and stored base2
C7_Witness ==
  \E p \in Procs :
    /\ AutoCreate(p)
    /\ Succeeded(p)
    /\ Len(req[p].probed) = 3
    /\ req[p].shortCode = req[p].base \o <<"2">>

\* the text s matches [a-z0-9]{lo,hi}
IsLowerAlnumText(s, lo, hi) ==
  Len(s) >= lo /\ Len(s) <= hi /\ \A i \in DOMAIN s : IsLowerAlnum(s[i])

\* the text s is the decimal numeral of a number in 1..999
IsSuffixNumeral(s) ==
  /\ Len(s) >= 1
  /\ Len(s) <= 3
  /\ \A i \in DOMAIN s : s[i] \in Range(DigitChars)
  /\ s[1] # "0"

C9_RoundTrip ==
  [][\A q \in Procs :
       (req[q].pc = "get_lookup" /\ Finishes(q) /\ req'[q].dbError = "none") =>
         \A w \in written :
           w.shortCode = req[q].shortCode =>
             /\ req'[q].result.kind = "response"
             /\ req'[q].result.status = 307
             /\ req'[q].result.location = {w.url}]_vars

\* a row was created, then updated to another url and code, and a lookup of
\* the new code was redirected to the new url
C9_Witness ==
  \E q \in Procs :
    /\ Done(q)
    /\ req[q].op = "get"
    /\ req[q].shortCode = CodeMyLink
    /\ req[q].result.status = 307
    /\ req[q].result.location = {UrlStack}
    /\ \E w \in written : w.shortCode = CodeMyLink /\ w.url = UrlStack

\* C10: a lookup answers with a redirect only if a row with exactly that short
\* code is in the table at the time of the lookup; when its query completes it
\* answers with a redirect if there is such a row and with 404 if there is none
C10_RedirectIffRow ==
  [][\A q \in Procs :
       (req[q].pc = "get_lookup" /\ Finishes(q)) =>
         LET hit == \E r \in linksTable : r.shortCode = req[q].shortCode
         IN /\ req'[q].result.status = 307 => hit
            /\ req'[q].dbError = "none" =>
                 /\ hit => req'[q].result.status = 307
                 /\ ~hit => /\ req'[q].result.status = 404
                            /\ req'[q].result.location = {}]_vars

\* a lookup of a code that no row carries (any more) was answered 404 while the
\* table holds other rows
C10_Witness ==
  \E q \in Procs :
    /\ Done(q)
    /\ req[q].op = "get"
    /\ req[q].result.status = 404
    /\ linksTable # {}
    /\ \A r \in linksTable : r.shortCode # req[q].shortCode


\* C11: while the row that a successful create or update stored a short code on
\* is neither modified nor deleted, checkShortCodeExists answers true for that
\* code without exclusion and false with the row's id excluded
C11_ExistsAfterStore ==
  \A w \in written :
    /\ checkShortCodeExists(linksTable, w.shortCode, {})
    /\ ~checkShortCodeExists(linksTable, w.shortCode, {w.id})

\* a create stored one code and an update stored another on a second row
C11_Witness ==
  \E w1 \in written : \E w2 \in written :
    /\ w1.id # w2.id
    /\ w2.shortCode = CodeMyLink
    /\ \E r \in linksTable : r.id = w1.id /\ r.shortCode = w1.shortCode

\* C12: a create, update or delete without a caller identity answers
\* Unauthorized having issued no persistence call and no cache invalidation, and
\* leaves the table alone; the redirect lookup never asks the identity provider
\* and answers every visitor, anonymous or signed in, the same
C12_AnonymousTouchesNothing ==
  [][\A p \in Procs :
       (req[p].pc # "done" /\ req'[p].pc = "done") =>
         /\ (req'[p].op \in {"create", "update", "delete"} /\ req'[p].caller = NoUser) =>
              /\ req'[p].result = Err(ErrUnauthorized, {})
              /\ req'[p].dbCalls = 0
              /\ req'[p].revalidated = 0
              /\ linksTable' = linksTable
         /\ (req'[p].op = "get") =>
              /\ req'[p].authCalls = 0
              /\ (req'[p].dbError = "none") =>
                   \A visitor \in Users \cup {NoUser} :
                     LET r == Issued([req[p] EXCEPT !.caller = visitor])
                         found == getLinkByShortCode(linksTable, r.shortCode)
                     IN req'[p].result \in
                          IF found = {} THEN {GetAnswered(r, {}).result}
                          ELSE {GetAnswered(r, {l}).result : l \in found}
  ]_vars

\* an anonymous delete was turned away while rows exist and a signed-in visitor
\* is being looked up a stored code
C12_Witness ==
  \E p \in Procs : \E q \in Procs :
    /\ Done(p) /\ req[p].op = "delete" /\ req[p].caller = NoUser
    /\ req[p].result.error = ErrUnauthorized
    /\ req[q].op = "get" /\ req[q].caller \in Users /\ req[q].pc = "get_lookup"
    /\ checkShortCodeExists(linksTable, req[q].shortCode, {})

\* the table of the run in which the row that request r names does not exist,
\* where in this run it exists and belongs to another owner
WithoutForeignTarget(tbl, r) == {x \in tbl : x.id \notin r.idIn \/ x.userId = r.userId}

\* C13: every step of an update or delete, and so the result it returns, is the
\* one the same request takes on the table that lacks the row it names, when that
\* row belongs to another owner: "no such row" and "somebody else's row" cannot
\* be told apart
C13_NotDistinguishable ==
  [][\A p \in Procs :
       (/\ req[p].op \in {"update", "delete"}
        /\ req[p].pc \notin {"idle", "done"}
        /\ req'[p] # req[p]
        /\ req'[p].dbError # "fault") =>
         LET r == Issued(req[p])
             other == WithoutForeignTarget(linksTable, r)
         IN req'[p] =
              CASE req[p].pc = "update_check" ->
                     UpdateChecked(r, checkShortCodeExists(other, r.shortCode, r.idIn))
                [] req[p].pc = "update_write" ->
                     UpdateWritten(r, other, dbNow, 0, FALSE).req
                [] req[p].pc = "delete_write" -> DeleteWritten(r, other, FALSE).req
  ]_vars

\* an update named another owner's row, which holds the very code supplied, and
\* was answered as if the row did not exist
C13_Witness ==
  \E p \in Procs :
    /\ Done(p) /\ req[p].op = "update"
    /\ req[p].result = Err(ErrNotFoundEdit, {})
    /\ \E x \in linksTable :
         /\ x.id \in req[p].idIn
         /\ x.userId # req[p].userId
         /\ x.shortCode = req[p].shortCode

(***************************************************************************)
(* Validation alone: the schemas of createLinkAction and updateLinkAction  *)
(* applied to short codes at and around the limits                         *)
(***************************************************************************)
CodeEmpty == <<>>
CodeAbc == <<"a","b","c">>
CodeDot == <<"a",".","b","c">>
CodeMixed == <<"A","_","z","-","9">>
CodeLongest == [i \in 1..MaxCodeLen |-> "Z"]
CodeTooLong == [i \in 1..(MaxCodeLen + 1) |-> "Z"]

ValidationCodes ==
  InputCodes \cup {CodeEmpty, CodeAbc, CodeDot, CodeMixed, CodeLongest, CodeTooLong}

ValidationInit == Init

\* createLinkAction is called with any of the short codes, or with none
ValidateCreate ==
  /\ req[1].pc = "idle"
  /\ \E userId \in Users \cup {NoUser}, url \in Urls, codeIn \in Opt(ValidationCodes) :
       req' = [req EXCEPT ![1] = createLinkActionBegin(userId, url, codeIn)]
  /\ UNCHANGED <<dbNow, linksTable, nextId, started, written, freed, dialog>>

\* updateLinkAction is called with any of the short codes, or with none
ValidateUpdate ==
  /\ req[1].pc = "idle"
  /\ \E userId \in Users \cup {NoUser}, url \in Urls, codeIn \in Opt(ValidationCodes),
        idIn \in Opt(TargetIds) :
       req' = [req EXCEPT ![1] = updateLinkActionBegin(userId, idIn, url, codeIn)]
  /\ UNCHANGED <<dbNow, linksTable, nextId, started, written, freed, dialog>>

\* the call is over; the next one starts afresh
ValidateAgain ==
  /\ req[1].pc # "idle"
  /\ req' = [req EXCEPT ![1] = IdleReq]
  /\ UNCHANGED <<dbNow, linksTable, nextId, started, written, freed, dialog>>

ValidationNext == ValidateCreate \/ ValidateUpdate \/ ValidateAgain

ValidationSpec == ValidationInit /\ [][ValidationNext]_vars

\* the characters a short code may be made of
CodeAlphabet ==
  {"a","b","c","d","e","f","g","h","i","j","k","l","m","n","o","p","q","r","s","t",
   "u","v","w","x","y","z",
   "A","B","C","D","E","F","G","H","I","J","K","L","M","N","O","P","Q","R","S","T",
   "U","V","W","X","Y","Z",
   "0","1","2","3","4","5","6","7","8","9", "-", "_"}

\* C14: validation accepts a supplied short code exactly when it has 3 to 20
\* characters, all of them letters, digits, "-" or "_", alike for create and
\* update; a rejection is the validation error with messages under field
\* shortCode; an update without a short code is rejected, never auto-allocated
C14_ShortCodeValidation ==
  \A p \in Procs :
    (req[p].op \in {"create", "update"} /\ req[p].caller # NoUser) =>
      LET wellFormed == \A c \in req[p].codeIn :
                          /\ Len(c) >= 3
                          /\ Len(c) <= 20
                          /\ \A i \in 1..Len(c) : c[i] \in CodeAlphabet
          rejected == /\ req[p].pc = "done"
                      /\ req[p].result.error = ErrInvalid
                      /\ "shortCode" \in req[p].result.details
      IN /\ (req[p].codeIn # {}) => (rejected <=> ~wellFormed)
         /\ (req[p].codeIn = {} /\ req[p].op = "update") =>
              rejected /\ req[p].base = <<>>
         /\ (req[p].codeIn = {} /\ req[p].op = "create") => ~rejected

\* "has space" was supplied to a create and rejected under field shortCode only
C14_Witness ==
  /\ req[1].op = "create"
  /\ req[1].codeIn = {CodeSpace}
  /\ req[1].result = Err(ErrInvalid, {"shortCode"})

\* C15: a create with a supplied short code that some row, of whatever owner,
\* holds when the check runs answers the collision error with its message under
\* field shortCode, inserts nothing, leaves the table as it is and invalidates
\* no cache; the supplied code is never given a suffix
C15_ExplicitCollision ==
  [][\A p \in Procs :
       (/\ req[p].pc = "check"
        /\ req'[p] # req[p]
        /\ req'[p].dbError # "fault") =>
         /\ req'[p].shortCode = TheOne(req[p].codeIn)
         /\ (\E x \in linksTable : x.shortCode = TheOne(req[p].codeIn)) =>
              /\ req'[p].pc = "done"
              /\ req'[p].result = Err(ErrExists, {"shortCode"})
              /\ req'[p].revalidated = 0
              /\ linksTable' = linksTable
              /\ nextId' = nextId
  ]_vars

\* a create was refused a code that a row of another owner holds
C15_Witness ==
  \E p \in Procs :
    /\ Done(p) /\ req[p].op = "create"
    /\ req[p].result = Err(ErrExists, {"shortCode"})
    /\ \E x \in linksTable :
         x.shortCode = TheOne(req[p].codeIn) /\ x.userId # req[p].userId

\* C16: the uniqueness check of an update leaves the target row out: a code that
\* only the target row holds is found not in use and the update goes on, while a
\* code that any other row holds is answered with the collision error and the
\* table, the target row included, stays as it is; no later step of an update
\* answers with the collision error
C16_NoSelfCollision ==
  [][\A p \in Procs :
       (/\ req[p].op = "update"
        /\ req[p].pc \in {"update_check", "update_write"}
        /\ req'[p] # req[p]
        /\ req'[p].dbError # "fault") =>
         LET heldByOther == \E x \in linksTable :
                              x.shortCode = req[p].shortCode /\ x.id \notin req[p].idIn
         IN IF req[p].pc = "update_check" /\ heldByOther
            THEN /\ req'[p].pc = "done"
                 /\ req'[p].result = Err(ErrExists, {"shortCode"})
                 /\ linksTable' = linksTable
            ELSE /\ req'[p].result.error # ErrExists
                 /\ req[p].pc = "update_check" => req'[p].pc = "update_write"
  ]_vars

\* the check has passed a code that the target row itself holds
C16_Witness ==
  \E p \in Procs :
    /\ req[p].pc = "update_write"
    /\ \E x \in linksTable : x.id \in req[p].idIn /\ x.shortCode = req[p].shortCode

\* C17: every row has createdAt <= updatedAt, and a successful update leaves the
\* row with updatedAt at the time of the update, not before the row's previous
\* updatedAt nor its createdAt, and with createdAt as it was
C17_UpdatedAtMoves ==
  [][/\ \A x \in linksTable' : x.createdAt <= x.updatedAt
     /\ \A p \in Procs :
          (req[p].pc = "update_write" /\ req'[p].result.kind = "success") =>
            \E old \in linksTable : \E new \in linksTable' :
              /\ req'[p].result.data = {new}
              /\ old.id = new.id
              /\ new.updatedAt = dbNow
              /\ new.updatedAt >= old.updatedAt
              /\ new.updatedAt >= new.createdAt
              /\ new.createdAt = old.createdAt
  ]_vars

\* a row was updated after the clock had advanced past its creation
C17_Witness ==
  \E p \in Procs :
    /\ Succeeded(p) /\ req[p].op = "update"
    /\ \E x \in linksTable :
         req[p].result.data = {x} /\ x.createdAt < x.updatedAt

\* C18: the listing that the dashboard renders for owner u holds each row whose
\* owner is u once, no other row, and no row before one created later
C18_ListingOwnedNewestFirst ==
  \A p \in Procs :
    (Done(p) /\ req[p].op = "dashboard" /\ req[p].result.kind = "page") =>
      LET links == req[p].result.links
          owned == {x \in linksTable : x.userId = req[p].caller}
      IN /\ {links[i] : i \in 1..Len(links)} = owned
         /\ Len(links) = Cardinality(owned)
         /\ \A i \in 1..Len(links) : \A j \in 1..Len(links) :
              i < j => links[i].createdAt >= links[j].createdAt

\* a listing of two rows, the later one first, while another owner has a row
C18_Witness ==
  \E p \in Procs :
    /\ Done(p) /\ req[p].op = "dashboard"
    /\ Len(req[p].result.links) = 2
    /\ req[p].result.links[1].createdAt > req[p].result.links[2].createdAt
    /\ \E x \in linksTable : x.userId # req[p].caller

\* C19: a request for the dashboard without a signed-in user is sent to /sign-in
\* with no query issued, and nothing of any owner's links is read or rendered
C19_DashboardNeedsUser ==
  \A p \in Procs :
    (req[p].op = "dashboard" /\ req[p].caller = NoUser) =>
      /\ req[p].pc = "done"
      /\ req[p].result = Redirected(SignIn)
      /\ req[p].dbCalls = 0
      /\ req[p].result.links = <<>>

\* an anonymous request for the dashboard was sent away while rows exist
C19_Witness ==
  \E p \in Procs :
    /\ Done(p) /\ req[p].op = "dashboard" /\ req[p].caller = NoUser
    /\ req[p].authCalls = 1
    /\ Cardinality(linksTable) >= 2

\* a short code of 3 to 20 characters of the code alphabet
WellFormedCode(c) ==
  Len(c) >= 3 /\ Len(c) <= 20 /\ \A i \in 1..Len(c) : c[i] \in CodeAlphabet

\* the input of the request r of a signed-in caller does not pass validation
InvalidInput(r) ==
  CASE r.op = "create" ->
         r.url.scheme = "" \/ \E c \in r.codeIn : ~WellFormedCode(c)
    [] r.op = "update" ->
         \/ r.idIn = {}
         \/ r.url.scheme = ""
         \/ r.codeIn = {}
         \/ \E c \in r.codeIn : ~WellFormedCode(c)
    [] r.op = "delete" -> r.idIn = {}

\* C20: a create, update or delete of a signed-in caller whose input fails
\* validation answers the validation error having issued no persistence call
\* and no cache invalidation, and leaves the table as it is
C20_InvalidTouchesNothing ==
  [][\A p \in Procs :
       (/\ req[p].pc = "idle"
        /\ req'[p].op \in {"create", "update", "delete"}
        /\ req'[p].caller # NoUser
        /\ InvalidInput(req'[p])) =>
         /\ req'[p].pc = "done"
         /\ req'[p].result.error = ErrInvalid
         /\ req'[p].dbCalls = 0
         /\ req'[p].revalidated = 0
         /\ linksTable' = linksTable
         /\ nextId' = nextId
  ]_vars

\* an update without a short code was turned away while rows exist
C20_Witness ==
  \E p \in Procs :
    /\ Done(p) /\ req[p].op = "update" /\ req[p].caller # NoUser
    /\ req[p].codeIn = {}
    /\ req[p].result.error = ErrInvalid
    /\ req[p].dbCalls = 0
    /\ linksTable # {}

\* C21: a create, update or delete signals the invalidation of the cached
\* listing only in its last step; one that answers success has signalled it
\* exactly once, in the step whose write the table then shows, and one that
\* answers anything else has not signalled it
C21_InvalidationOnSuccess ==
  [][\A p \in Procs :
       /\ (req'[p].pc # "done") => req'[p].revalidated = 0
       /\ (req[p].pc # "done" /\ req'[p].pc = "done"
           /\ req'[p].op \in {"create", "update", "delete"}) =>
            IF req'[p].result.kind = "success"
            THEN /\ req[p].revalidated = 0
                 /\ req'[p].revalidated = 1
                 /\ req[p].pc \in {"insert", "update_write", "delete_write"}
                 /\ req'[p].op \in {"create", "update"} =>
                      \E x \in linksTable' :
                        /\ req'[p].result.data = {x}
                        /\ x.url = req'[p].url
                        /\ x.shortCode = req'[p].shortCode
                 /\ req'[p].op = "delete" =>
                      /\ \A x \in linksTable' : x.id \notin req'[p].idIn
                      /\ linksTable' # linksTable
            ELSE req'[p].revalidated = 0
  ]_vars

\* a delete removed a row and signalled the invalidation once
C21_Witness ==
  \E p \in Procs :
    /\ Succeeded(p) /\ req[p].op = "delete"
    /\ req[p].revalidated = 1
    /\ linksTable # {}

(***************************************************************************)
(* The allocator at its limit: a create without short code for a URL whose *)
(* base and suffixed candidates are held by rows of another owner          *)
(***************************************************************************)
\* the base of UrlX, then the base with the suffixes 1, 2, ...
AllocCandidate(i) ==
  IF i = 1 THEN generateShortCodeFromUrl(UrlX)
  ELSE generateShortCodeFromUrl(UrlX) \o ToDecimal(i - 1)

\* which of the candidates are free when the run starts: none, one of the first
\* MaxCounter, or the one after them
AllocFree == {{}, {2}, {3}, {4}, {MaxCounter - 1}, {MaxCounter}, {MaxCounter + 1}}

\* the probe of the loop at which storage fails; 0 when none does
AllocFaults == {0, 1, 2, 3, MaxCounter - 1, MaxCounter}

\* the while loop of createLinkAction (lines 80-87) from request r on, on a
\* table that no other request changes meanwhile
AllocLoop1(r, tbl, faultAt) ==
  IF r.pc # "alloc" THEN r
  ELSE IF r.dbCalls + 1 = faultAt THEN Escaped(Issued(r))
  ELSE AllocRound(Issued(r), checkShortCodeExists(tbl, r.shortCode, {}))

\* four, sixteen and sixty-four rounds of the loop, fewer if it ends before
AllocLoop4(r, tbl, faultAt) ==
  TheOne({AllocLoop1(d, tbl, faultAt) :
            d \in {AllocLoop1(c, tbl, faultAt) :
                     c \in {AllocLoop1(b, tbl, faultAt) :
                              b \in {AllocLoop1(r, tbl, faultAt)}}}})

AllocLoop16(r, tbl, faultAt) ==
  TheOne({AllocLoop4(d, tbl, faultAt) :
            d \in {AllocLoop4(c, tbl, faultAt) :
                     c \in {AllocLoop4(b, tbl, faultAt) :
                              b \in {AllocLoop4(r, tbl, faultAt)}}}})

AllocLoop64(r, tbl, faultAt) ==
  TheOne({AllocLoop16(d, tbl, faultAt) :
            d \in {AllocLoop16(c, tbl, faultAt) :
                     c \in {AllocLoop16(b, tbl, faultAt) :
                              b \in {AllocLoop16(r, tbl, faultAt)}}}})

RECURSIVE AllocLoop(_, _, _)
AllocLoop(r, tbl, faultAt) ==
  IF r.pc # "alloc" THEN r
  ELSE TheOne({AllocLoop(b, tbl, faultAt) : b \in {AllocLoop64(r, tbl, faultAt)}})

\* the loop runs to its end while nothing else happens
CreateAllocRun(p) ==
  /\ Delivered
  /\ req[p].pc = "alloc"
  /\ \E faultAt \in AllocFaults, r \in {req[p]} :
       req' = [req EXCEPT ![p] = AllocLoop(r, linksTable, faultAt)]
  /\ UNCHANGED <<dbNow, linksTable, nextId, started, written, freed, dialog>>

AllocInit ==
  /\ \E free \in AllocFree :
       linksTable = {Row(i, "u2", UrlSeed, AllocCandidate(i), 0) :
                       i \in (1..(MaxCounter + 1)) \ free}
  /\ nextId = MaxCounter + 2
  /\ req = [p \in Procs |-> IdleReq]
  /\ started = 0
  /\ written = {}
  /\ freed = {}
  /\ dialog = [k \in Dialogs |-> ClosedDialog]
  /\ dbNow = 0

\* one create without short code for UrlX, by either owner
AllocNext ==
  \E p \in {1} :
    \/ CreateStart(p) /\ started = 0 /\ req'[p].pc = "alloc" /\ req'[p].url = UrlX
    \/ CreateAllocRun(p)
    \/ CreateInsert(p)
    \/ Return(p)

\* an awaited call of the data layer comes back
AllocSpec ==
  /\ AllocInit
  /\ [][AllocNext]_vars
  /\ WF_vars(CreateAllocRun(1))
  /\ WF_vars(CreateInsert(1))

\* C22: a create without short code issues at most 1000 existence probes and
\* comes to an end; it gives up with the could-not-allocate error exactly when
\* the base and the base with each suffix 1..999 were all found held, and then
\* inserts nothing and signals no invalidation; with one of those free it goes
\* on to the insert
C22_AllocatorGivesUpAt1000 ==
  /\ [][\A p \in Procs :
          (req'[p].op = "create" /\ req'[p].codeIn = {}) =>
            /\ Len(req'[p].probed) <= 1000
            /\ (req[p].pc = "alloc" /\ req'[p] # req[p]) => req'[p].dbCalls <= 1000
            /\ (req'[p].result.error = ErrGenerate /\ req[p].pc # "done") =>
                 req[p].pc = "alloc"
            /\ (req[p].pc = "alloc" /\ req'[p].pc = "done"
                /\ req'[p].dbError = "none") =>
                 /\ req'[p].result = Err(ErrGenerate, {})
                 /\ Len(req'[p].probed) = 1000
                 /\ \A i \in 1..1000 :
                      checkShortCodeExists(
                        linksTable, Candidate(generateShortCodeFromUrl(req[p].url), i), {})
                 /\ linksTable' = linksTable
                 /\ nextId' = nextId
                 /\ req'[p].revalidated = 0
       ]_vars
  /\ \A p \in {1} : (req[p].pc = "alloc") ~> (req[p].pc = "done")

\* the create gave up after 1000 probes although the base with suffix 1000,
\* which it never probed, is free
C22_Witness ==
  \E p \in Procs :
    /\ Done(p)
    /\ req[p].result = Err(ErrGenerate, {})
    /\ Len(req[p].probed) = 1000
    /\ ~checkShortCodeExists(linksTable, Candidate(req[p].base, 1001), {})

\* C23: an update that answers success has replaced one row, the one it names,
\* by a row with the same id, owner and createdAt and with exactly the supplied
\* url and short code, and has left every other row and the number of rows as
\* they were; an update that answers anything else, and every earlier step of an
\* update, leaves the table as it is
C23_UpdateFrame ==
  [][\A p \in Procs :
       (req'[p].op = "update" /\ req[p].pc # "done" /\ req'[p] # req[p]) =>
         IF req'[p].pc = "done" /\ req'[p].result.kind = "success"
         THEN \E old \in linksTable : \E new \in linksTable' :
                /\ old.id \in req[p].idIn
                /\ new.id = old.id
                /\ new.userId = old.userId
                /\ new.createdAt = old.createdAt
                /\ new.url = req[p].url
                /\ new.shortCode = TheOne(req[p].codeIn)
                /\ linksTable' \ {new} = linksTable \ {old}
                /\ Cardinality(linksTable') = Cardinality(linksTable)
                /\ nextId' = nextId
         ELSE linksTable' = linksTable /\ nextId' = nextId
  ]_vars

\* an update gave a row a new url and short code some time after its creation,
\* beside another row
C23_Witness ==
  \E p \in Procs :
    /\ Succeeded(p) /\ req[p].op = "update"
    /\ Cardinality(linksTable) >= 2
    /\ \E x \in linksTable :
         /\ req[p].result.data = {x}
         /\ x.createdAt < x.updatedAt
         /\ x.url = req[p].url
         /\ x.shortCode = CodeMyLink

\* C24: a delete that names a row of its caller removes that row and no other,
\* and at once the row's short code is held by no row: the existence check
\* answers false and the lookup finds nothing; a delete that names no row of its
\* caller, as a second delete of the same id does, answers not found and leaves
\* the table as it is; a code that no row holds is not refused: its lookup
\* answers 404, its check passes and its insert stores it, and an update by a
\* signed-in caller whose id and URL are valid, supplying a code that a delete
\* freed and no row holds, reaches its uniqueness check
C24_DeleteFreesCode ==
  [][\A p \in Procs :
      /\ (/\ req[p].pc = "idle" /\ req'[p].op = "update"
          /\ Authenticated(req'[p].userId)
          /\ UpdateLinkSchema(req'[p].idIn, req'[p].url, {CodeGithub}) = {}
          /\ req'[p].codeIn # {}
          /\ \A c \in req'[p].codeIn :
               c \in freed /\ ~checkShortCodeExists(linksTable, c, {}))
           => req'[p].pc = "update_check"
      /\
       (req[p].pc \notin {"idle", "done"} /\ req'[p] # req[p]
        /\ req'[p].dbError = "none") =>
         LET free == ~\E x \in linksTable : x.shortCode = req[p].shortCode
             hit == {x \in linksTable : x.id \in req[p].idIn /\ x.userId = req[p].userId}
         IN /\ (req[p].pc = "delete_write" /\ hit # {}) =>
                 /\ req'[p].result = Ok({})
                 /\ Cardinality(hit) = 1
                 /\ linksTable' = linksTable \ hit
                 /\ \A x \in hit :
                      /\ ~checkShortCodeExists(linksTable', x.shortCode, {})
                      /\ getLinkByShortCode(linksTable', x.shortCode) = {}
            /\ (req[p].pc = "delete_write" /\ hit = {}) =>
                 /\ req'[p].result = Err(ErrNotFoundDelete, {})
                 /\ linksTable' = linksTable
            /\ (req[p].pc = "get_lookup" /\ free) => req'[p].result = ResponseNotFound
            /\ (req[p].pc = "check" /\ free) => req'[p].pc = "insert"
            /\ (req[p].pc = "insert" /\ free) =>
                 /\ req'[p].result.kind = "success"
                 /\ \E x \in linksTable' :
                      x.id = nextId /\ x.shortCode = req[p].shortCode
  ]_vars

\* the rows that a successful create stored and that stand as it stored them
CreatedRows ==
  {x \in linksTable :
     \E w \in written : w.id = x.id /\ w.op = "create" /\ w.shortCode = x.shortCode}

\* the request in slot p, after the step, is an update by the owner of a created
\* row that supplies the row's own short code and a valid URL
OwnCodeResubmitted(p) ==
  /\ req'[p].op = "update"
  /\ UpdateLinkSchema(req'[p].idIn, req'[p].url, {CodeGithub}) = {}
  /\ \E x \in CreatedRows :
       /\ x.id \in req'[p].idIn
       /\ x.userId = req'[p].userId
       /\ req'[p].codeIn = {x.shortCode}

\* C25: an update by the owner of a row that a successful create stored, with
\* the row's current short code and a valid URL, passes validation, passes the
\* uniqueness check and is written with a success result, unless a query of
\* the update fails
C25_OwnCodeAcceptedBack ==
  [][\A p \in Procs :
       (req'[p] # req[p] /\ OwnCodeResubmitted(p) /\ req'[p].dbError = "none") =>
         /\ req[p].pc = "idle" => req'[p].pc = "update_check"
         /\ req[p].pc = "update_check" => req'[p].pc = "update_write"
         /\ req[p].pc = "update_write" => req'[p].result.kind = "success"
  ]_vars

(***************************************************************************)
(* The dialogs in front of the server actions                              *)
(***************************************************************************)
\* the browser session: the user of the seeded row, or a session that has ended
DialogCallers == {SeedUser, NoUser}

\* what the form fields hold at a submit
DialogUrls == {UrlGithub, UrlBad}
DialogCodes == {CodeEmpty, CodeAb, CodeSeed, CodeMyLink}

\* the link that the edit and the delete dialog were rendered for
DialogLink == Row(1, SeedUser, UrlSeed, CodeSeed, 0)

\* onOpenChange and the Cancel button; one dialog is open at a time
DialogOpenChange(k, newOpen) ==
  /\ dialog[k].open # newOpen
  /\ newOpen => \A other \in Dialogs : ~dialog[other].open
  /\ dialog' = [dialog EXCEPT ![k] = OpenChanged(k, @, newOpen)]
  /\ UNCHANGED <<dbNow, linksTable, nextId, req, started, written, freed>>

\* CreateLinkDialog.handleSubmit up to its await (lines 115-128)
CreateLinkDialogSubmit(p) ==
  /\ dialog["create"].open /\ ~dialog["create"].isLoading
  /\ Accepts(p)
  /\ \E u \in DialogCallers, url \in DialogUrls, text \in DialogCodes :
       req' = [req EXCEPT ![p] = createLinkActionBegin(u, url, FormCode(text))]
  /\ dialog' = [dialog EXCEPT !["create"] = Submitted(@)]
  /\ UNCHANGED <<dbNow, linksTable, nextId, written, freed>>

\* EditLinkDialog.handleSubmit up to its await (lines 50-61)
EditLinkDialogSubmit(p) ==
  /\ dialog["edit"].open /\ ~dialog["edit"].isLoading
  /\ Accepts(p)
  /\ \E u \in DialogCallers, url \in DialogUrls \cup {DialogLink.url},
        text \in DialogCodes \ {CodeEmpty} :
       req' = [req EXCEPT ![p] = updateLinkActionBegin(u, {DialogLink.id}, url, {text})]
  /\ dialog' = [dialog EXCEPT !["edit"] = Submitted(@)]
  /\ UNCHANGED <<dbNow, linksTable, nextId, written, freed>>

\* DeleteLinkDialog.handleDelete up to its await (lines 27-31)
DeleteLinkDialogSubmit(p) ==
  /\ dialog["delete"].open /\ ~dialog["delete"].isLoading
  /\ Accepts(p)
  /\ \E u \in DialogCallers :
       req' = [req EXCEPT ![p] = deleteLinkActionBegin(u, {DialogLink.id})]
  /\ dialog' = [dialog EXCEPT !["delete"] = Submitted(@)]
  /\ UNCHANGED <<dbNow, linksTable, nextId, written, freed>>

\* the promise of the server action settles and the handler runs on
DialogResume(p, k) ==
  /\ dialog[k].awaiting
  /\ req[p].pc = "done"
  /\ dialog' = [dialog EXCEPT ![k] = IF k = "delete"
                                     THEN ResumedDelete(@, req[p].result)
                                     ELSE Resumed(@, req[p].result)]
  /\ req' = [req EXCEPT ![p] = IdleReq]
  /\ UNCHANGED <<dbNow, linksTable, nextId, started, written, freed>>

DialogNext ==
  \/ \E k \in Dialogs, newOpen \in BOOLEAN : DialogOpenChange(k, newOpen)
  \/ \E p \in {1} :
       \/ CreateLinkDialogSubmit(p)
       \/ EditLinkDialogSubmit(p)
       \/ DeleteLinkDialogSubmit(p)
       \/ CreateAllocProbe(p)
       \/ CreateCheck(p)
       \/ CreateInsert(p)
       \/ UpdateCheck(p)
       \/ UpdateWrite(p)
       \/ DeleteWrite(p)
       \/ \E k \in Dialogs : DialogResume(p, k)

DialogInit == TimedInit

\* the three dialogs of one browser session over the seeded table, one server
\* action in flight at a time
DialogSpec == DialogInit /\ [][DialogNext]_vars

\* C26: a submit of a dialog sets isLoading; when its server action has
\* finished, isLoading is false again; after a success result the dialog is
\* closed, after an error result it is as open as it was and shows the
\* per-field messages of the result's details when there are any and the
\* general error message otherwise
C26_DialogFollowsResult ==
  [][\A k \in Dialogs :
       LET d == dialog[k]
           e == dialog'[k]
           result == req[1].result
       IN /\ (~d.awaiting /\ e.awaiting) => e.isLoading
          /\ (d.awaiting /\ ~e.awaiting) =>
               /\ ~e.isLoading
               /\ result.kind = "success" => ~e.open
               /\ result.kind = "error" =>
                    /\ e.open = d.open
                    /\ IF result.details # {}
                       THEN /\ e.errors = result.details
                            /\ e.errors \subseteq {"url", "shortCode"}
                            /\ e.generalError = ""
                       ELSE /\ e.generalError = result.error
                            /\ e.errors = {}
  ]_vars

====
